---- MODULE Spec2Model ----
(***************************************************************************)
(* A model of the README generation agent.  The repository holds two       *)
(* variants of the `app` package: the one under app/ (here "app") and the   *)
(* one under src/app/ (here "src_app"); app/__main__.py drives whichever    *)
(* of them is importable as `app`.                                          *)
(*                                                                          *)
(* Strings are sequences of code points, so that suffixes, lower-casing,    *)
(* ordering, decoding and slicing are computed as Python computes them.     *)
(***************************************************************************)
EXTENDS Integers, Sequences, FiniteSets, TLC

VARIABLES impl, fs, args, api_key, pc, agent, tree, files, idx, summaries,
          readLog, context, calls, result, stdout, exit_code

vars == <<impl, fs, args, api_key, pc, agent, tree, files, idx, summaries,
          readLog, context, calls, result, stdout, exit_code>>

\* ------------------------------------------------------------------ config

\* app/config.py
SUPPORTED_EXTENSIONS ==
    { <<46,112,121>>,          \* .py
      <<46,106,115>>,          \* .js
      <<46,116,115>>,          \* .ts
      <<46,109,100>>,          \* .md
      <<46,116,120,116>>,      \* .txt
      <<46,104,116,109,108>>,  \* .html
      <<46,99,115,115>>,       \* .css
      <<46,106,115,111,110>>,  \* .json
      <<46,121,97,109,108>>,   \* .yaml
      <<46,121,109,108>>,      \* .yml
      <<46,106,97,118,97>>,    \* .java
      <<46,99>>,               \* .c
      <<46,99,112,112>>,       \* .cpp
      <<46,104>>,              \* .h
      <<46,104,112,112>> }     \* .hpp

EXCLUSION_PATTERNS ==
    { <<46,103,105,116>>,                                 \* .git
      <<95,95,112,121,99,97,99,104,101,95,95>>,           \* __pycache__
      <<110,111,100,101,95,109,111,100,117,108,101,115>>, \* node_modules
      <<46,105,100,101,97>>,                              \* .idea
      <<46,118,115,99,111,100,101>>,                      \* .vscode
      <<118,101,110,118>>,                                \* venv
      <<101,110,118>>,                                    \* env
      <<100,105,115,116>>,                                \* dist
      <<98,117,105,108,100>>,                             \* build
      <<99,111,118,101,114,97,103,101>> }                 \* coverage

\* src/app/config.py
SUPPORTED_EXTENSIONS_src ==
    { <<46,112,121>>,          \* .py
      <<46,109,100>>,          \* .md
      <<46,116,120,116>>,      \* .txt
      <<46,106,115,111,110>>,  \* .json
      <<46,121,109,108>>,      \* .yml
      <<46,121,97,109,108>>,   \* .yaml
      <<46,104,116,109,108>>,  \* .html
      <<46,99,115,115>>,       \* .css
      <<46,106,115>> }         \* .js

EXCLUSION_PATTERNS_src ==
    { <<95,95,112,121,99,97,99,104,101,95,95>>,           \* __pycache__
      <<46,103,105,116>>,                                 \* .git
      <<118,101,110,118>>,                                \* venv
      <<46,101,110,118>>,                                 \* .env
      <<110,111,100,101,95,109,111,100,117,108,101,115>>, \* node_modules
      <<42,46,112,121,99>>,                               \* *.pyc
      <<100,105,115,116>>,                                \* dist
      <<98,117,105,108,100>> }                            \* build

\* "\n...(truncated)..."            (app/agents.py)
TruncationMarker ==
    <<10,46,46,46,40,116,114,117,110,99,97,116,101,100,41,46,46,46>>

\* "\n... [Content Truncated] ..."  (src/app/tools.py)
TruncationMarker_src ==
    <<10,46,46,46,32,91,67,111,110,116,101,110,116,32,84,114,117,110,99,97,
      116,101,100,93,32,46,46,46>>

\* ------------------------------------------------------- string primitives

Min(a, b) == IF a <= b THEN a ELSE b
Max(a, b) == IF a >= b THEN a ELSE b

\* str.rfind(ch): the last (1-based) position of ch in s, 0 when absent.
RFind(s, ch) ==
    LET at == {i \in 1..Len(s) : s[i] = ch}
    IN  IF at = {} THEN 0 ELSE CHOOSE i \in at : \A j \in at : j <= i

\* PurePath.suffix:  i = name.rfind('.');  name[i:] if 0 < i < len(name)-1
\* (0-based i), otherwise ''.
Suffix(name) ==
    LET p == RFind(name, 46)
    IN  IF p > 1 /\ p < Len(name) THEN SubSeq(name, p, Len(name)) ELSE <<>>

\* str.lower() on the ASCII range.
Lower(s) == [i \in 1..Len(s) |-> IF s[i] >= 65 /\ s[i] <= 90 THEN s[i] + 32 ELSE s[i]]

\* s[:n] of Python: a negative n counts from the end.
SliceTo(s, n) ==
    IF n >= 0 THEN SubSeq(s, 1, Min(n, Len(s)))
              ELSE SubSeq(s, 1, Max(Len(s) + n, 0))

\* a <= b for sequences of integers (tuple and str comparison of Python).
RECURSIVE SeqLeq(_, _)
SeqLeq(a, b) ==
    IF a = <<>> THEN TRUE
    ELSE IF b = <<>> THEN FALSE
    ELSE IF Head(a) < Head(b) THEN TRUE
    ELSE IF Head(a) > Head(b) THEN FALSE
    ELSE SeqLeq(Tail(a), Tail(b))

EndsWith(s, t) ==
    Len(s) >= Len(t) /\ SubSeq(s, Len(s) - Len(t) + 1, Len(s)) = t

IsPrefix(p, s) == Len(p) <= Len(s) /\ SubSeq(s, 1, Len(p)) = p

\* sorted(items, key=...): stable, ascending in the key.  Items are records
\* with a field key (a sequence of integers).
RECURSIVE InsertByKey(_, _)
InsertByKey(x, s) ==
    IF s = <<>> THEN <<x>>
    ELSE IF SeqLeq(s[Len(s)].key, x.key) THEN Append(s, x)
    ELSE Append(InsertByKey(x, SubSeq(s, 1, Len(s) - 1)), s[Len(s)])

RECURSIVE Sorted(_)
Sorted(s) ==
    IF s = <<>> THEN <<>>
    ELSE InsertByKey(s[Len(s)], Sorted(SubSeq(s, 1, Len(s) - 1)))

\* --------------------------------------------------------------- decoding

\* bytes.decode('utf-8') on one- and two-byte forms; every other lead byte
\* of the inputs below (0xFF) is invalid in UTF-8.  ok = FALSE stands for
\* UnicodeDecodeError.
RECURSIVE Utf8Decode(_)
Utf8Decode(bytes) ==
    IF bytes = <<>> THEN [ok |-> TRUE, text |-> <<>>]
    ELSE LET b == Head(bytes) IN
         IF b < 128 THEN
             LET r == Utf8Decode(Tail(bytes))
             IN  [ok |-> r.ok, text |-> IF r.ok THEN <<b>> \o r.text ELSE <<>>]
         ELSE IF b >= 194 /\ b <= 223 /\ Len(bytes) >= 2
                 /\ bytes[2] >= 128 /\ bytes[2] <= 191 THEN
             LET r == Utf8Decode(SubSeq(bytes, 3, Len(bytes)))
                 c == (b - 192) * 64 + (bytes[2] - 128)
             IN  [ok |-> r.ok, text |-> IF r.ok THEN <<c>> \o r.text ELSE <<>>]
         ELSE [ok |-> FALSE, text |-> <<>>]

\* bytes.decode('latin-1'): byte b is code point b; it cannot fail.
Latin1Decode(bytes) == [ok |-> TRUE, text |-> bytes]

\* ------------------------------------------------------------ file system

\* A file system seen from directory_path: a function from relative paths
\* (sequences of names) to nodes.  A directory lists its entries in the
\* order the operating system returns them (os.scandir); denied means that
\* listing it raises PermissionError.
Dir(entries, denied) ==
    [kind |-> "dir", entries |-> entries, denied |-> denied, bytes |-> <<>>]
File(bytes) ==
    [kind |-> "file", entries |-> <<>>, denied |-> FALSE, bytes |-> bytes]

a_py   == <<97,46,112,121>>
B_py   == <<66,46,112,121>>
e_py   == <<101,46,112,121>>
s_py   == <<115,46,112,121>>
z_txt  == <<122,46,116,120,116>>
m_json == <<109,46,106,115,111,110>>
u_md   == <<117,46,109,100>>
a_md   == <<97,46,109,100>>
A_md   == <<65,46,109,100>>
x_js   == <<120,46,106,115>>
b_png  == <<98,46,112,110,103>>
lib    == <<108,105,98>>
Docs   == <<68,111,99,115>>
priv   == <<112,114,105,118>>
proj   == <<112,114,111,106>>
dist   == <<100,105,115,116>>
build  == <<98,117,105,108,100>>

\* proj/ with sources, a dependency directory and two undecodable files.
FsProject ==
       (<<>>            :> Dir(<<z_txt, lib, B_py, dist, a_py, b_png>>, FALSE))
    @@ (<<z_txt>>       :> File(<<104,101,121>>))            \* "hey"
    @@ (<<lib>>         :> Dir(<<m_json, u_md>>, FALSE))
    @@ (<<lib, m_json>> :> File(<<123,255>>))                \* not UTF-8
    @@ (<<lib, u_md>>   :> File(<<195,169,33>>))             \* "e-acute !"
    @@ (<<B_py>>        :> File(<<104,105>>))                \* "hi"
    @@ (<<dist>>        :> Dir(<<x_js>>, FALSE))
    @@ (<<dist, x_js>>  :> File(<<104,105>>))
    @@ (<<a_py>>        :> File(<<97,98,99,100>>))           \* "abcd"
    @@ (<<b_png>>       :> File(<<255>>))

\* A directory that cannot be listed, next to accessible entries.
FsLocked ==
       (<<>>            :> Dir(<<priv, z_txt, Docs, a_py>>, FALSE))
    @@ (<<priv>>        :> Dir(<<s_py>>, TRUE))
    @@ (<<priv, s_py>>  :> File(<<104,105>>))
    @@ (<<z_txt>>       :> File(<<104,101,121>>))
    @@ (<<Docs>>        :> Dir(<<a_md, A_md>>, FALSE))
    @@ (<<Docs, a_md>>  :> File(<<104,105>>))
    @@ (<<Docs, A_md>>  :> File(<<104,101,121>>))
    @@ (<<a_py>>        :> File(<<104,105>>))

\* Nothing to summarise: an image, a file called build, an empty module,
\* an empty directory.
FsBare ==
       (<<>>            :> Dir(<<b_png, build, e_py, lib>>, FALSE))
    @@ (<<b_png>>       :> File(<<255>>))
    @@ (<<build>>       :> File(<<104,105>>))
    @@ (<<e_py>>        :> File(<<>>))
    @@ (<<lib>>         :> Dir(<<>>, FALSE))

\* directory_path names a regular file.
FsNotDir == (<<>> :> File(<<104,105>>))

\* directory_path names nothing.
FsMissing == <<>>

FileSystems == {FsProject, FsLocked, FsBare, FsNotDir, FsMissing}

\* The components of directory_path: proj, or build/proj.
RootPaths == {<<proj>>, <<build, proj>>}

exists(f, p) == p \in DOMAIN f
is_dir(f, p) == exists(f, p) /\ f[p].kind = "dir"
is_file(f, p) == exists(f, p) /\ f[p].kind = "file"

\* Path.iterdir(): the children of d in listing order.
iterdir(f, d) == [i \in 1..Len(f[d].entries) |-> Append(d, f[d].entries[i])]

Name(p) == p[Len(p)]

\* The path of a file-system node as the program holds it: directory_path
\* joined with the relative path; and back.
Join(root, rel) == root \o rel
Rel(root, p) == SubSeq(p, Len(root) + 1, Len(p))

\* ----------------------------------------------------- app/tools.py ("app")

\* should_exclude(path): some part of the path is an exclusion entry (the
\* second test of the loop body has no effect).
should_exclude(parts) ==
    \E i \in 1..Len(parts) : parts[i] \in EXCLUSION_PATTERNS

\* The loop over os.walk(dir_path) in list_files, for the directory d and
\* everything below it: dirs is pruned in place, files are kept by suffix.
\* os.walk skips a directory it cannot list (onerror is None).
RECURSIVE walk_files(_, _, _), walk_dirs(_, _, _, _)
\* walk_files without the in-place pruning of dirs.
walk_files_noprune(f, root, d) ==
    IF f[d].denied THEN <<>>
    ELSE LET children == iterdir(f, d)
             dirs  == SelectSeq(children, LAMBDA e : is_dir(f, e))
             found == SelectSeq(children, LAMBDA e :
                          is_file(f, e) /\ Suffix(Name(e)) \in SUPPORTED_EXTENSIONS)
         IN  [i \in 1..Len(found) |-> Join(root, found[i])]
             \o walk_dirs(f, root, dirs, 1)

walk_files(f, root, d) ==
    IF f[d].denied THEN <<>>
    ELSE LET children == iterdir(f, d)
             dirs  == SelectSeq(children, LAMBDA e :
                          is_dir(f, e) /\ Name(e) \notin EXCLUSION_PATTERNS)
             found == SelectSeq(children, LAMBDA e :
                          is_file(f, e) /\ Suffix(Name(e)) \in SUPPORTED_EXTENSIONS)
         IN  [i \in 1..Len(found) |-> Join(root, found[i])]
             \o walk_dirs(f, root, dirs, 1)
walk_dirs(f, root, dirs, i) ==
    IF i > Len(dirs) THEN <<>>
    ELSE walk_files(f, root, dirs[i]) \o walk_dirs(f, root, dirs, i + 1)

\* list_files(directory)
list_files(f, root) ==
    IF ~exists(f, <<>>) THEN <<>>
    ELSE IF ~is_dir(f, <<>>) THEN <<>>
    ELSE walk_files(f, root, <<>>)

\* read_file_content decoding with errors ignored instead of giving up:
\* the bytes that are ASCII survive.
read_file_content_partial(f, rel, io1, io2) ==
    IF io1 THEN [ok |-> FALSE, text |-> <<>>]
    ELSE IF Utf8Decode(f[rel].bytes).ok THEN Utf8Decode(f[rel].bytes)
    ELSE IF io2 THEN [ok |-> TRUE,
                      text |-> SelectSeq(f[rel].bytes, LAMBDA b : b < 128)]
    ELSE Latin1Decode(f[rel].bytes)

\* read_file_content(path).  io1 and io2 say whether the first and the
\* second read_text fail with an OSError; ok = FALSE stands for None.
read_file_content(f, rel, io1, io2) ==
    IF io1 THEN [ok |-> FALSE, text |-> <<>>]
    ELSE IF Utf8Decode(f[rel].bytes).ok THEN Utf8Decode(f[rel].bytes)
    ELSE IF io2 THEN [ok |-> FALSE, text |-> <<>>]
    ELSE Latin1Decode(f[rel].bytes)

\* One line of a rendered tree: prefix is the list of indentation units
\* ("pipe" is the vertical bar unit, "blank" four spaces), connector is
\* "tee" or "last", slash says whether "/" follows the name.  path names the
\* entry the line was printed for.
TreeLine(prefix, connector, name, slash, path) ==
    [prefix |-> prefix, connector |-> connector, name |-> name,
     slash |-> slash, path |-> path]

BlankLine == TreeLine(<<>>, "", <<>>, FALSE, <<>>)

\* _add_to_tree(path, prefix) of generate_directory_tree
RECURSIVE add_to_tree(_, _, _, _), add_entries(_, _, _, _, _)
add_to_tree(f, root, d, prefix) ==
    IF f[d].denied THEN <<>>
    ELSE LET kept == SelectSeq(iterdir(f, d), LAMBDA e :
                         Name(e) \notin EXCLUSION_PATTERNS
                         /\ ~should_exclude(Join(root, e)))
             entries == Sorted([i \in 1..Len(kept) |->
                         [key  |-> <<IF is_file(f, kept[i]) THEN 1 ELSE 0>>
                                   \o Lower(Name(kept[i])),
                          path |-> kept[i]]])
         IN  add_entries(f, root, entries, 1, prefix)
add_entries(f, root, entries, i, prefix) ==
    IF i > Len(entries) THEN <<>>
    ELSE LET entry   == entries[i].path
             is_last == (i = Len(entries))
             line    == TreeLine(prefix, IF is_last THEN "last" ELSE "tee",
                                 Name(entry), is_dir(f, entry), entry)
             below   == IF is_dir(f, entry)
                        THEN add_to_tree(f, root, entry,
                                 Append(prefix, IF is_last THEN "blank" ELSE "pipe"))
                        ELSE <<>>
         IN  <<line>> \o below \o add_entries(f, root, entries, i + 1, prefix)

\* generate_directory_tree(directory): the lines of tree_str.
generate_directory_tree(f, root) ==
    IF ~exists(f, <<>>) \/ ~is_dir(f, <<>>)
    THEN <<TreeLine(<<>>, "invalid", Name(root), FALSE, <<>>)>>
    ELSE <<TreeLine(<<>>, "", Name(root), TRUE, <<>>)>>
         \o add_to_tree(f, root, <<>>, <<>>)

\* ------------------------------------------------- src/app/tools.py ("src_app")

\* generate_directory_tree(root_path, indent): the lines of the joined
\* string, or raised = TRUE when iterdir raises PermissionError, which
\* nothing in the function catches.  Paths sort by their parts, case
\* sensitively; an empty sub-directory contributes an empty string to the
\* join, that is an empty line.
RECURSIVE generate_directory_tree_src(_, _, _), tree_items_src(_, _, _, _)
generate_directory_tree_src(f, d, indent) ==
    IF f[d].denied THEN [raised |-> TRUE, lines |-> <<>>]
    ELSE LET kept == SelectSeq(iterdir(f, d), LAMBDA e :
                         Name(e) \notin EXCLUSION_PATTERNS_src)
             items == Sorted([i \in 1..Len(kept) |->
                         [key |-> Name(kept[i]), path |-> kept[i]]])
         IN  tree_items_src(f, items, 1, indent)
tree_items_src(f, items, i, indent) ==
    IF i > Len(items) THEN [raised |-> FALSE, lines |-> <<>>]
    ELSE LET item    == items[i].path
             is_last == (i = Len(items))
             line    == TreeLine(indent, IF is_last THEN "last" ELSE "tee",
                                 Name(item), FALSE, item)
             sub     == IF is_dir(f, item)
                        THEN generate_directory_tree_src(f, item,
                                 Append(indent, IF is_last THEN "blank" ELSE "pipe"))
                        ELSE [raised |-> FALSE, lines |-> <<>>]
             below   == IF ~is_dir(f, item) THEN <<>>
                        ELSE IF sub.lines = <<>> THEN <<BlankLine>>
                        ELSE sub.lines
             rest    == tree_items_src(f, items, i + 1, indent)
         IN  IF sub.raised \/ rest.raised
             THEN [raised |-> TRUE, lines |-> <<>>]
             ELSE [raised |-> FALSE, lines |-> <<line>> \o below \o rest.lines]

\* root.rglob("*"): every path below d, directory by directory in
\* pre-order; a directory that cannot be listed yields nothing.
RECURSIVE rglob(_, _), rglob_dirs(_, _, _)
rglob(f, d) ==
    IF f[d].denied THEN <<>>
    ELSE LET children == iterdir(f, d)
             dirs == SelectSeq(children, LAMBDA e : is_dir(f, e))
         IN  children \o rglob_dirs(f, dirs, 1)
rglob_dirs(f, dirs, i) ==
    IF i > Len(dirs) THEN <<>>
    ELSE rglob(f, dirs[i]) \o rglob_dirs(f, dirs, i + 1)

\* The two tests at the head of the loop body of get_file_summaries: is
\* file_path read at all?
is_candidate_src(f, root, rel) ==
    /\ ~(is_dir(f, rel)
         \/ \E i \in 1..Len(Join(root, rel)) :
                Join(root, rel)[i] \in EXCLUSION_PATTERNS_src)
    /\ Suffix(Name(rel)) \in SUPPORTED_EXTENSIONS_src

\* file_path.read_text(encoding="utf-8"); ok = FALSE stands for any
\* exception (OSError when io1, UnicodeDecodeError otherwise).
read_text_src(f, rel, io1) ==
    IF io1 THEN [ok |-> FALSE, text |-> <<>>]
    ELSE Utf8Decode(f[rel].bytes)

\* ------------------------------------------------------------------ state
\*
\* impl       which app package main imports: "app" or "src_app"
\* fs         the file system below directory_path
\* args       the parsed command line
\* api_key    whether GEMINI_API_KEY is set
\* pc         the position of the run
\* agent      the READMEAgent (model = FALSE stands for self.model = None)
\* tree       the rendered directory tree
\* files, idx the paths the scan loops over, and the position of the loop
\* summaries  the FileSummary list
\* readLog    what each read_text did, as the logger of app/tools.py reports
\* context    the assembled context
\* calls      the generate_content requests made, with their outcomes
\* result     what generate() returned
\* stdout     the lines printed
\* exit_code  the exit status of the process

\* The largest --max-chars tried.
MaxChars == 3

inputs == <<impl, fs, args, api_key>>

Out(kind, path, detail) == [kind |-> kind, path |-> path, detail |-> detail]

Init ==
    /\ impl \in {"app", "src_app"}
    /\ fs \in FileSystems
    /\ args \in [directory_path : RootPaths,
                 dry_run        : BOOLEAN,
                 max_chars      : -1..MaxChars]
    /\ api_key \in BOOLEAN
    /\ pc = "main"
    /\ agent = [constructed |-> FALSE, model |-> FALSE]
    /\ tree = [done |-> FALSE, lines |-> <<>>]
    /\ files = <<>>
    /\ idx = 0
    /\ summaries = <<>>
    /\ readLog = <<>>
    /\ context = [built |-> FALSE, tree |-> <<>>, sections |-> <<>>]
    /\ calls = <<>>
    /\ result = "none"
    /\ stdout = <<>>
    /\ exit_code = 0

\* What main's `except Exception` does with an exception raised by the
\* agent: print it and sys.exit(1).
Unexpected(e) ==
    /\ stdout' = Append(stdout, Out("unexpected", args.directory_path, e))
    /\ exit_code' = 1
    /\ pc' = "done"

\* --------------------------------------------------------- app/__main__.py

\* main_check_path without the os.path.isdir test.
main_check_path_noisdir ==
    /\ pc = "main"
    /\ IF ~exists(fs, <<>>) THEN
           /\ stdout' = Append(stdout, Out("not_exist", args.directory_path, ""))
           /\ exit_code' = 1
           /\ pc' = "done"
       ELSE
           /\ pc' = "construct"
           /\ UNCHANGED <<stdout, exit_code>>
    /\ UNCHANGED <<inputs, agent, tree, files, idx, summaries, readLog,
                   context, calls, result>>

\* main(), the validation of directory_path.
main_check_path ==
    /\ pc = "main"
    /\ IF ~exists(fs, <<>>) THEN
           /\ stdout' = Append(stdout, Out("not_exist", args.directory_path, ""))
           /\ exit_code' = 1
           /\ pc' = "done"
       ELSE IF ~is_dir(fs, <<>>) THEN
           /\ stdout' = Append(stdout, Out("not_dir", args.directory_path, ""))
           /\ exit_code' = 1
           /\ pc' = "done"
       ELSE
           /\ pc' = "construct"
           /\ UNCHANGED <<stdout, exit_code>>
    /\ UNCHANGED <<inputs, agent, tree, files, idx, summaries, readLog,
                   context, calls, result>>

\* main(): print(result), and the process ends with status 0.
main_print ==
    /\ pc = "print"
    /\ stdout' = Append(stdout, Out("result", <<>>, result))
    /\ pc' = "done"
    /\ UNCHANGED <<inputs, agent, tree, files, idx, summaries, readLog,
                   context, calls, result, exit_code>>

\* ------------------------------------------------------ app/agents.py ("app")

\* READMEAgent_init building the model whether or not a key is set.
READMEAgent_init_nokey ==
    /\ pc = "construct" /\ impl = "app"
    /\ agent' = [constructed |-> TRUE, model |-> TRUE]
    /\ pc' = "tree"
    /\ UNCHANGED <<inputs, tree, files, idx, summaries, readLog, context,
                   calls, result, stdout, exit_code>>

\* READMEAgent.__init__: without a key the model is None.
READMEAgent_init ==
    /\ pc = "construct" /\ impl = "app"
    /\ agent' = [constructed |-> TRUE, model |-> api_key]
    /\ pc' = "tree"
    /\ UNCHANGED <<inputs, tree, files, idx, summaries, readLog, context,
                   calls, result, stdout, exit_code>>

\* generate(): 1. the directory tree.
generate_tree ==
    /\ pc = "tree" /\ impl = "app"
    /\ tree' = [done |-> TRUE,
                lines |-> generate_directory_tree(fs, args.directory_path)]
    /\ pc' = "list"
    /\ UNCHANGED <<inputs, agent, files, idx, summaries, readLog, context,
                   calls, result, stdout, exit_code>>

\* get_file_summaries(): files = list_files(self.project_path)
get_file_summaries_list ==
    /\ pc = "list" /\ impl = "app"
    /\ files' = list_files(fs, args.directory_path)
    /\ idx' = 1
    /\ pc' = "read"
    /\ UNCHANGED <<inputs, agent, tree, summaries, readLog, context, calls,
                   result, stdout, exit_code>>

\* file_path.relative_to(self.project_path), file_path.name on ValueError
relative_to(p, root) ==
    IF IsPrefix(root, p) THEN Rel(root, p) ELSE <<Name(p)>>

\* The truncation of get_file_summaries.
truncate(content, max_chars) ==
    IF Len(content) > max_chars
    THEN SliceTo(content, max_chars) \o TruncationMarker
    ELSE content

\* get_file_summaries(): one turn of the loop over files.
get_file_summaries_read ==
    /\ pc = "read" /\ impl = "app"
    /\ idx <= Len(files)
    /\ \E io1 \in BOOLEAN, io2 \in BOOLEAN :
         LET file_path == files[idx]
             rel  == Rel(args.directory_path, file_path)
             read == read_file_content(fs, rel, io1, io2)
             primary  == IF io1 THEN "os_error"
                         ELSE IF Utf8Decode(fs[rel].bytes).ok THEN "ok"
                         ELSE "decode_error"
             fallback == IF primary # "decode_error" THEN "none"
                         ELSE IF io2 THEN "os_error" ELSE "ok"
         IN  /\ readLog' = Append(readLog,
                    [path |-> rel, primary |-> primary, fallback |-> fallback,
                     text |-> read.text])
             /\ summaries' =
                    IF read.ok /\ read.text # <<>>
                    THEN Append(summaries,
                           [path      |-> relative_to(file_path, args.directory_path),
                            extension |-> Suffix(Name(file_path)),
                            content   |-> truncate(read.text, args.max_chars)])
                    ELSE summaries
    /\ idx' = idx + 1
    /\ UNCHANGED <<inputs, pc, agent, tree, files, context, calls, result,
                   stdout, exit_code>>

\* generate_context without the test of `not summaries`.
generate_context_nocheck ==
    /\ pc = "read" /\ impl = "app"
    /\ idx > Len(files)
    /\ context' = [built |-> TRUE, tree |-> tree.lines, sections |-> summaries]
    /\ pc' = "decide"
    /\ UNCHANGED <<inputs, agent, tree, files, idx, summaries, readLog,
                   calls, result, stdout, exit_code>>

\* generate(): the test of `not summaries`, then 3. the context.
generate_context ==
    /\ pc = "read" /\ impl = "app"
    /\ idx > Len(files)
    /\ IF summaries = <<>> THEN
           /\ result' = "no_valid_files"
           /\ pc' = "print"
           /\ UNCHANGED context
       ELSE
           /\ context' = [built |-> TRUE, tree |-> tree.lines,
                          sections |-> summaries]
           /\ pc' = "decide"
           /\ UNCHANGED result
    /\ UNCHANGED <<inputs, agent, tree, files, idx, summaries, readLog,
                   calls, stdout, exit_code>>

\* generate_decide without the dry-run return.
generate_decide_nodry ==
    /\ pc = "decide" /\ impl = "app"
    /\ IF ~agent.model THEN
           /\ result' = "no_api_key"
           /\ pc' = "print"
       ELSE
           /\ pc' = "call"
           /\ UNCHANGED result
    /\ UNCHANGED <<inputs, agent, tree, files, idx, summaries, readLog,
                   context, calls, stdout, exit_code>>

\* generate(): the dry-run return and the test of self.model.
generate_decide ==
    /\ pc = "decide" /\ impl = "app"
    /\ IF args.dry_run THEN
           /\ result' = "dry_run"
           /\ pc' = "print"
       ELSE IF ~agent.model THEN
           /\ result' = "no_api_key"
           /\ pc' = "print"
       ELSE
           /\ pc' = "call"
           /\ UNCHANGED result
    /\ UNCHANGED <<inputs, agent, tree, files, idx, summaries, readLog,
                   context, calls, stdout, exit_code>>

\* generate_call without the try/except: the exception reaches main.
generate_call_propagates ==
    /\ pc = "call" /\ impl = "app"
    /\ \E raised \in BOOLEAN :
         /\ calls' = Append(calls, IF raised THEN "raised" ELSE "answered")
         /\ IF raised THEN
                /\ Unexpected("Exception")
                /\ UNCHANGED result
            ELSE
                /\ result' = "response"
                /\ pc' = "print"
                /\ UNCHANGED <<stdout, exit_code>>
    /\ UNCHANGED <<inputs, agent, tree, files, idx, summaries, readLog,
                   context>>

\* generate_call repeating the request once after a failure.
generate_call_retry ==
    /\ pc = "call" /\ impl = "app"
    /\ \E raised \in BOOLEAN :
         /\ calls' = Append(calls, IF raised THEN "raised" ELSE "answered")
         /\ IF raised /\ calls = <<>> THEN
                /\ pc' = "call"
                /\ UNCHANGED result
            ELSE
                /\ result' = IF raised THEN "llm_error" ELSE "response"
                /\ pc' = "print"
    /\ UNCHANGED <<inputs, agent, tree, files, idx, summaries, readLog,
                   context, stdout, exit_code>>

\* generate(): 4. self.model.generate_content(...) inside try/except; the
\* service answers or the call (or reading response.text) raises.
generate_call ==
    /\ pc = "call" /\ impl = "app"
    /\ \E raised \in BOOLEAN :
         /\ calls' = Append(calls, IF raised THEN "raised" ELSE "answered")
         /\ result' = IF raised THEN "llm_error" ELSE "response"
    /\ pc' = "print"
    /\ UNCHANGED <<inputs, agent, tree, files, idx, summaries, readLog,
                   context, stdout, exit_code>>

\* ----------------------------------------------- src/app/agents.py ("src_app")

\* READMEAgent.__init__: without a key it raises ValueError, which main
\* catches.
READMEAgent_init_src ==
    /\ pc = "construct" /\ impl = "src_app"
    /\ IF ~api_key THEN
           /\ Unexpected("ValueError: GEMINI_API_KEY environment variable not set")
           /\ UNCHANGED agent
       ELSE
           /\ agent' = [constructed |-> TRUE, model |-> TRUE]
           /\ pc' = "tree"
           /\ UNCHANGED <<stdout, exit_code>>
    /\ UNCHANGED <<inputs, tree, files, idx, summaries, readLog, context,
                   calls, result>>

\* _get_context(): tree = generate_directory_tree(self.project_path); a
\* PermissionError leaves generate() and reaches main.
get_context_tree_src ==
    /\ pc = "tree" /\ impl = "src_app"
    /\ LET t == generate_directory_tree_src(fs, <<>>, <<>>)
       IN  IF t.raised THEN
               /\ Unexpected("PermissionError")
               /\ UNCHANGED tree
           ELSE
               /\ tree' = [done |-> TRUE, lines |-> t.lines]
               /\ pc' = "list"
               /\ UNCHANGED <<stdout, exit_code>>
    /\ UNCHANGED <<inputs, agent, files, idx, summaries, readLog, context,
                   calls, result>>

\* get_file_summaries(root_path, max_chars): the paths root.rglob("*")
\* yields.
get_file_summaries_glob_src ==
    /\ pc = "list" /\ impl = "src_app"
    /\ files' = rglob(fs, <<>>)
    /\ idx' = 1
    /\ pc' = "read"
    /\ UNCHANGED <<inputs, agent, tree, summaries, readLog, context, calls,
                   result, stdout, exit_code>>

\* The truncation of get_file_summaries.
truncate_src(content, max_chars) ==
    IF Len(content) > max_chars
    THEN SliceTo(content, max_chars) \o TruncationMarker_src
    ELSE content

\* get_file_summaries(): one turn of the loop over root.rglob("*").
get_file_summaries_read_src ==
    /\ pc = "read" /\ impl = "src_app"
    /\ idx <= Len(files)
    /\ LET rel == files[idx] IN
       IF ~is_candidate_src(fs, args.directory_path, rel)
       THEN UNCHANGED <<summaries, readLog>>
       ELSE \E io1 \in BOOLEAN :
              LET read == read_text_src(fs, rel, io1)
                  primary == IF io1 THEN "os_error"
                             ELSE IF read.ok THEN "ok" ELSE "decode_error"
              IN  /\ readLog' = Append(readLog,
                         [path |-> rel, primary |-> primary,
                          fallback |-> "none", text |-> read.text])
                  /\ summaries' =
                         IF read.ok
                         THEN Append(summaries,
                                [relative_path |-> rel,
                                 content |-> truncate_src(read.text, args.max_chars)])
                         ELSE summaries
    /\ idx' = idx + 1
    /\ UNCHANGED <<inputs, pc, agent, tree, files, context, calls, result,
                   stdout, exit_code>>

\* _get_context(): the context parts, joined.
get_context_src ==
    /\ pc = "read" /\ impl = "src_app"
    /\ idx > Len(files)
    /\ context' = [built |-> TRUE, tree |-> tree.lines, sections |-> summaries]
    /\ pc' = "decide"
    /\ UNCHANGED <<inputs, agent, tree, files, idx, summaries, readLog,
                   calls, result, stdout, exit_code>>

\* generate(): the dry-run return.
generate_decide_src ==
    /\ pc = "decide" /\ impl = "src_app"
    /\ IF args.dry_run THEN
           /\ result' = "dry_run"
           /\ pc' = "print"
       ELSE
           /\ pc' = "call"
           /\ UNCHANGED result
    /\ UNCHANGED <<inputs, agent, tree, files, idx, summaries, readLog,
                   context, calls, stdout, exit_code>>

\* generate(): the cooldown notice and sleep, then
\* self.client.models.generate_content(...), all inside try/except.
generate_call_src ==
    /\ pc = "call" /\ impl = "src_app"
    /\ stdout' = Append(stdout, Out("cooldown", <<>>, ""))
    /\ \E raised \in BOOLEAN :
         /\ calls' = Append(calls, IF raised THEN "raised" ELSE "answered")
         /\ result' = IF raised THEN "llm_error" ELSE "response"
    /\ pc' = "print"
    /\ UNCHANGED <<inputs, agent, tree, files, idx, summaries, readLog,
                   context, exit_code>>

\* ------------------------------------------------------------ specification

Next ==
    \/ main_check_path
    \/ READMEAgent_init
    \/ generate_tree
    \/ get_file_summaries_list
    \/ get_file_summaries_read
    \/ generate_context
    \/ generate_decide
    \/ generate_call
    \/ READMEAgent_init_src
    \/ get_context_tree_src
    \/ get_file_summaries_glob_src
    \/ get_file_summaries_read_src
    \/ get_context_src
    \/ generate_decide_src
    \/ generate_call_src
    \/ main_print

Spec == Init /\ [][Next]_vars

\* ----------------------------------------------------------------- claims

Supported == IF impl = "app" THEN SUPPORTED_EXTENSIONS ELSE SUPPORTED_EXTENSIONS_src
Excluded  == IF impl = "app" THEN EXCLUSION_PATTERNS ELSE EXCLUSION_PATTERNS_src
Marker    == IF impl = "app" THEN TruncationMarker ELSE TruncationMarker_src

HasExcludedPart(p) == \E i \in 1..Len(p) : p[i] \in Excluded

SummaryPath(s) == IF impl = "app" THEN s.path ELSE s.relative_path

Done == pc = "done"
ValidDirectory == is_dir(fs, <<>>)
ScanFinished == pc \in {"read", "decide", "call", "print", "done"} /\ idx > Len(files)

\* The paths a scan has returned: the list list_files returned (app), the
\* relative_path of the summaries get_file_summaries collected (src_app).
Returned ==
    IF impl = "app" THEN {files[i] : i \in 1..Len(files)}
    ELSE {summaries[i].relative_path : i \in 1..Len(summaries)}

\* The same paths, relative to the scanned directory.
ReturnedRelative ==
    IF impl = "app" THEN {Rel(args.directory_path, files[i]) : i \in 1..Len(files)}
    ELSE {summaries[i].relative_path : i \in 1..Len(summaries)}

\* C1, as stated: every path a scan returns has a supported suffix and no
\* path component equal to an exclusion entry.
C1_ReturnedPathsFiltered ==
    \A p \in Returned :
        Suffix(Name(p)) \in Supported /\ ~HasExcludedPart(p)

\* C1, amended: every path a scan returns has a supported suffix, and no
\* component of it below the scanned directory is an exclusion entry.
C1_ReturnedPathsFilteredBelowRoot ==
    /\ \A p \in Returned : Suffix(Name(p)) \in Supported
    /\ \A p \in ReturnedRelative : ~HasExcludedPart(p)

\* list_files has returned files of a tree that holds a supported file in
\* an excluded directory, scanned through build/proj.
C1_Witness ==
    /\ impl = "app" /\ ScanFinished
    /\ files # <<>>
    /\ is_file(fs, <<dist, x_js>>)
    /\ args.directory_path = <<build, proj>>

\* The decoded content the summary s was made from.
Decoded(s) ==
    LET i == CHOOSE i \in 1..Len(readLog) : readLog[i].path = SummaryPath(s)
    IN  readLog[i].text

\* C2: a summary of a file longer than max_chars holds the first max_chars
\* characters followed by the truncation marker, so it is at most
\* max_chars + len(marker) long and ends with the marker; the content of a
\* file that is not longer is stored unchanged.
C2_Truncation ==
    \A i \in 1..Len(summaries) :
        LET s == summaries[i]
            c == Decoded(s)
            m == args.max_chars
        IN  IF Len(c) > m
            THEN /\ s.content = SubSeq(c, 1, m) \o Marker
                 /\ Len(s.content) <= m + Len(Marker)
                 /\ EndsWith(s.content, Marker)
            ELSE s.content = c

\* C3: a dry run never makes a generate_content request.
C3_DryRunNoRequest == args.dry_run => calls = <<>>

\* A dry run with a key set has returned its preview.
C3_Witness ==
    Done /\ args.dry_run /\ api_key /\ result = "dry_run" /\ context.built

\* The run ended on the missing-credential path: the "GEMINI_API_KEY not
\* set" result printed (app), the constructor's ValueError reported by main
\* with status 1 (src_app).
OnMissingCredentialPath ==
    IF impl = "app"
    THEN /\ result = "no_api_key"
         /\ stdout = <<Out("result", <<>>, "no_api_key")>>
    ELSE /\ stdout = <<Out("unexpected", args.directory_path,
                "ValueError: GEMINI_API_KEY environment variable not set")>>
         /\ exit_code = 1

\* C4, as stated (for a directory that exists): without a key, a run that
\* is not a dry run ends on the missing-credential path, and no request is
\* ever made.
C4_MissingKeyEndsOnCredentialError ==
    (~api_key /\ ~args.dry_run /\ ValidDirectory) =>
        /\ calls = <<>>
        /\ Done => OnMissingCredentialPath

\* C4, amended: without a key, a run that is not a dry run never makes a
\* request; on an existing directory it ends on the missing-credential
\* path, except that the app variant ends with the "No valid files found"
\* result when the scan yields no file summary.
C4_MissingKeyNoRequest ==
    (~api_key /\ ~args.dry_run) =>
        /\ calls = <<>>
        /\ (Done /\ ValidDirectory) =>
              IF impl = "app" /\ summaries = <<>>
              THEN /\ result = "no_valid_files"
                   /\ stdout = <<Out("result", <<>>, "no_valid_files")>>
              ELSE OnMissingCredentialPath

\* The app variant has returned the "GEMINI_API_KEY not set" result.
C4_Witness ==
    Done /\ impl = "app" /\ ~api_key /\ ~args.dry_run /\ result = "no_api_key"

\* The read of entry e failed the UTF-8 decode and the fallback (src_app
\* has no fallback).
FailedDecoding(e) == e.primary = "decode_error" /\ e.fallback # "ok"

HasSummary(p) == \E i \in 1..Len(summaries) : SummaryPath(summaries[i]) = p

\* C5: a supported file that fails the UTF-8 decode and the fallback has
\* no summary, and the scan goes on: the files read after it are
\* summarised as usual and the run is not aborted.
C5_UndecodableFileSkipped ==
    /\ \A i \in 1..Len(readLog) :
          LET e == readLog[i] IN
          /\ FailedDecoding(e) => ~HasSummary(e.path)
          /\ (e.primary = "ok" /\ e.text # <<>>) => HasSummary(e.path)
    /\ (\E i \in 1..Len(readLog) : FailedDecoding(readLog[i])) =>
          /\ pc \in {"read", "decide", "call", "print", "done"}
          /\ \A k \in 1..Len(stdout) : stdout[k].kind # "unexpected"
          /\ ScanFinished =>
                \A j \in 1..Len(files) :
                    LET rel == IF impl = "app"
                               THEN Rel(args.directory_path, files[j])
                               ELSE files[j]
                    IN  (IF impl = "app" THEN TRUE
                         ELSE is_candidate_src(fs, args.directory_path, rel))
                        => \E i \in 1..Len(readLog) : readLog[i].path = rel

\* In the app variant a file failed both reads, and a file read after it
\* is summarised.
C5_Witness ==
    /\ impl = "app"
    /\ \E i \in 1..Len(readLog) : \E j \in 1..Len(readLog) :
          /\ i < j
          /\ readLog[i].primary = "decode_error"
          /\ readLog[i].fallback = "os_error"
          /\ HasSummary(readLog[j].path)

\* C6: when directory_path does not exist or is not a directory, the run
\* prints one error line naming the path and exits with status 1, before
\* an agent is constructed, a tree rendered, a file scanned or a request
\* made.
C6_BadDirectoryExitsFirst ==
    ~ValidDirectory =>
        /\ pc \in {"main", "done"}
        /\ ~agent.constructed /\ ~tree.done /\ ~context.built
        /\ files = <<>> /\ readLog = <<>> /\ summaries = <<>>
        /\ calls = <<>>
        /\ Done =>
              /\ exit_code = 1
              /\ stdout = <<Out(IF exists(fs, <<>>) THEN "not_dir" ELSE "not_exist",
                                args.directory_path, "")>>

\* directory_path names a regular file and the run has ended.
C6_Witness ==
    Done /\ is_file(fs, <<>>) /\ exit_code = 1 /\ Len(stdout) = 1

\* C7: when the generate_content request raises, generate() returns the
\* error string, main prints it last and the process ends with status 0.
C7_RequestFailureIsAResult ==
    (Done /\ \E i \in 1..Len(calls) : calls[i] = "raised") =>
        /\ result = "llm_error"
        /\ stdout # <<>>
        /\ stdout[Len(stdout)] = Out("result", <<>>, "llm_error")
        /\ \A k \in 1..Len(stdout) : stdout[k].kind # "unexpected"
        /\ exit_code = 0

\* A request has raised and the run has ended.
C7_Witness ==
    Done /\ calls = <<"raised">> /\ result = "llm_error"

\* A run that is not a dry run, on an existing directory, with a key set.
NormalRun == ~args.dry_run /\ ValidDirectory /\ api_key

\* C8, as stated, for the app variant: a normal run makes exactly one
\* request.
C8_ExactlyOneRequest ==
    (Done /\ NormalRun /\ impl = "app") => Len(calls) = 1

\* generate() gets as far as the request: the scan yields a file summary
\* (app), the tree render does not raise (src_app).
ReachesRequest ==
    IF impl = "app" THEN summaries # <<>>
    ELSE ~generate_directory_tree_src(fs, <<>>, <<>>).raised

\* C8, amended: a run makes at most one request, only after the tree
\* render, the scan and the context assembly are complete, and ends after
\* it, whether or not it failed; a normal run makes exactly one request if
\* generate() gets as far as the request, and none otherwise (the app
\* variant returns "No valid files found" when there is no file summary,
\* the src_app variant leaves on a PermissionError of the tree render).
C8_AtMostOneRequestAfterContext ==
    /\ Len(calls) <= 1
    /\ calls # <<>> =>
          /\ tree.done /\ ScanFinished /\ context.built
          /\ context.sections = summaries
          /\ pc \in {"print", "done"}
    /\ (Done /\ NormalRun) =>
          Len(calls) = IF ReachesRequest THEN 1 ELSE 0

\* A normal run whose only request failed has ended.
C8_Witness ==
    Done /\ NormalRun /\ calls = <<"raised">> /\ context.built

\* The lines of the tree that stand for entries.
EntryLines == {i \in 1..Len(tree.lines) : tree.lines[i].path # <<>>}
Parent(p) == SubSeq(p, 1, Len(p) - 1)

\* C9: in the rendered tree the entries of every directory appear with the
\* directories before the files, each group ascending in the lower-cased
\* name, in both variants; no entry named in the exclusion set appears.
C9_TreeOrder ==
    tree.done =>
        /\ \A i \in EntryLines : \A j \in EntryLines :
              LET a == tree.lines[i].path
                  b == tree.lines[j].path
              IN  (i < j /\ Parent(a) = Parent(b)) =>
                     /\ ~(is_file(fs, a) /\ is_dir(fs, b))
                     /\ (is_dir(fs, a) <=> is_dir(fs, b)) =>
                            SeqLeq(Lower(Name(a)), Lower(Name(b)))
        /\ \A i \in EntryLines : tree.lines[i].name \notin Excluded

\* The entry p passes the renderer's exclusion test, and so does every
\* directory above it, none of which refuses to be listed.
Shown(p) ==
    /\ IF impl = "app"
       THEN ~should_exclude(Join(args.directory_path, p))
       ELSE \A i \in 1..Len(p) : p[i] \notin EXCLUSION_PATTERNS_src
    /\ \A n \in 0..(Len(p) - 1) : ~fs[SubSeq(p, 1, n)].denied

\* The renderer comes upon a directory it may not list.
MeetsDeniedDirectory ==
    \E p \in DOMAIN fs : fs[p].denied /\ Shown(p)

\* C10: when the tree renderer meets a directory whose listing is denied,
\* it skips that directory's children and goes on: the tree holds every
\* other accessible entry that is not excluded, and no exception reaches
\* the caller.
C10_DeniedDirectorySkipped ==
    (ValidDirectory /\ MeetsDeniedDirectory /\ agent.constructed
       /\ pc \in {"list", "read", "decide", "call", "print", "done"}) =>
        /\ tree.done
        /\ \A k \in 1..Len(stdout) : stdout[k].kind # "unexpected"
        /\ \A p \in DOMAIN fs :
              (p # <<>> /\ Shown(p)) =>
                  \E i \in EntryLines : tree.lines[i].path = p

\* C11: in the app variant, when the scan yields no file summary,
\* generate() returns the "No valid files found" result, in a dry run and
\* in a normal run alike, without assembling a context, without the
\* dry-run preview and without a request; main prints it and ends with
\* status 0.
C11_NoSummariesNoContext ==
    (impl = "app" /\ agent.constructed /\ ScanFinished /\ summaries = <<>>) =>
        /\ pc \in {"read", "print", "done"}
        /\ ~context.built
        /\ calls = <<>>
        /\ result = IF pc = "read" THEN "none" ELSE "no_valid_files"
        /\ Done => /\ stdout = <<Out("result", <<>>, "no_valid_files")>>
                   /\ exit_code = 0

\* A dry run of the app variant in which supported files were read, none
\* gave a summary, and the run has ended.
C11_Witness ==
    /\ Done /\ impl = "app" /\ args.dry_run
    /\ readLog # <<>> /\ summaries = <<>>
    /\ result = "no_valid_files"

====
